---- MODULE Spec2Model ----
(***************************************************************************)
(* Model of genesys_to_agent_template.py: the reconciliation pipeline     *)
(* run_from_paths (load, aggregate, merge, booking enrichment, drop of    *)
(* unnamed records, fill_template) and its time codec.                    *)
(*                                                                         *)
(* Encoding of values.  String cells are TLA+ strings, numeric cells are  *)
(* integers.  pandas' missing value is NaNS in a string column and NaN in *)
(* a numeric column; Python's None (row.get of an absent column) is NoneS *)
(* resp. NoneN.  A float that need not be whole (a mean, a quotient) is a *)
(* rational [num, den]; den = 0 stands for None/NaN.                       *)
(***************************************************************************)
EXTENDS Integers, Sequences, FiniteSets, TLC

VARIABLES
    pc,          \* position in run_from_paths / fill_template
    perf_csv,    \* the performance export: "missing" or [cols, rows]
    status_csv,  \* the status export: "missing" or [cols, rows]
    booking,     \* [given, exists, cols, rows]: the optional booking path
    template,    \* [exists, max_row, cells]: the template workbook
    perf_df, status_df, perf_agg, status_agg, merged,
    ws,          \* the worksheet being filled: (row, column) -> cell
    records,     \* the flat records accumulated by fill_template
    row_idx,     \* next spreadsheet row to write
    df_pos,      \* index of the next row of df.iterrows()
    out_xlsx,    \* the saved workbook, or NoFile
    out_csv,     \* the written flat file, or NoFile
    failed_at,   \* the step that raised, "" while none did
    seconds,     \* time codec: the input of seconds_to_hhmmss_time
    clock        \* time codec: its result

vars == <<pc, perf_csv, status_csv, booking, template, perf_df, status_df,
          perf_agg, status_agg, merged, ws, records, row_idx, df_pos,
          out_xlsx, out_csv, failed_at, seconds, clock>>

-----------------------------------------------------------------------------
(* Missing values *)

NaNS == "<NaN>"
NoneS == "<None>"
NaN == 0 - 1
NoneN == 0 - 2

\* pd.isna on a string-column value and on a numeric-column value
IsNaS(v) == v \in {NaNS, NoneS}
IsNaN(v) == v \in {NaN, NoneN}

\* a rational num/den; den = 0 is None/NaN
Rat(n, d) == [num |-> n, den |-> d]
NoneRat == Rat(0, 0)
IsNoneRat(q) == q.den = 0
RatEq(p, q) == /\ (p.den = 0) = (q.den = 0)
               /\ p.num * q.den = q.num * p.den

-----------------------------------------------------------------------------
(* Time codec *)

SecondsPerDay == 86400
SecondsPerHour == 3600
SecondsPerMinute == 60
MaxHour == 23
MaxMinSec == 59

\* Python's round() of the float n/d (d > 0): to nearest, ties to even
RoundHalfEven(n, d) ==
    LET q == n \div d
        r == n % d
    IN  IF 2 * r < d THEN q
        ELSE IF 2 * r > d THEN q + 1
        ELSE IF q % 2 = 0 THEN q ELSE q + 1

NoTime == <<>>

seconds_to_hhmmss_time_NoClamp(sec) ==
    IF IsNoneRat(sec) THEN NoTime
    ELSE LET s0 == RoundHalfEven(sec.num, sec.den)
             s == IF s0 < 0 THEN 0 ELSE s0
         IN  <<s \div SecondsPerHour,
               (s % SecondsPerHour) \div SecondsPerMinute,
               s % SecondsPerMinute>>

\* seconds_to_hhmmss_time: None for None/NaN, else the clamped (h, m, s)
seconds_to_hhmmss_time(sec) ==
    IF IsNoneRat(sec) THEN NoTime
    ELSE LET s0 == RoundHalfEven(sec.num, sec.den)
             s == IF s0 < 0 THEN 0 ELSE s0
             h == s \div SecondsPerHour
             m == (s % SecondsPerHour) \div SecondsPerMinute
             x == s % SecondsPerMinute
         IN  IF h > MaxHour THEN <<MaxHour, MaxMinSec, MaxMinSec>>
             ELSE <<h, m, x>>

\* seconds_to_excel_time: seconds / 86400.0, None for None/NaN
seconds_to_excel_time(s) ==
    IF IsNaN(s) THEN NoneRat ELSE Rat(s, SecondsPerDay)

-----------------------------------------------------------------------------
(* Tables: [cols |-> set of column names, rows |-> sequence of rows], a    *)
(* row being a function from the table's columns to values.               *)

KeyCandidates == <<"Interval Start", "Agent Id", "Agent Name", "Division Name">>
PerfSumCols == {"Answered", "Outbound", "Total ACW", "Total Handle"}
PerfMeanCols == {"Avg Handle"}
StatusSumCols == {"Logged In"}
StatusFirstCols == {"Log In", "Log Out"}
NumericCols == PerfSumCols \cup StatusSumCols \cup {"Total Inbound Booking"}

\* the value a join fills in for a column of the side that has no match
NullOf(c) == IF c \in PerfMeanCols THEN NoneRat
             ELSE IF c \in NumericCols THEN NaN ELSE NaNS

\* every string a key column holds in the model, in Python's string order
StrOrder == <<"01/13/24 08:00", "13/01/24 08:00", "A. Smith", "B. Jones",
              "Div1", "id1", "id2", "id3", "nan", "not a date">>

Rank(v) == IF \E i \in 1..Len(StrOrder) : StrOrder[i] = v
           THEN CHOOSE i \in 1..Len(StrOrder) : StrOrder[i] = v
           ELSE Len(StrOrder) + 1      \* missing values sort last

RECURSIVE KeyLess(_, _)
KeyLess(k1, k2) ==
    IF k1 = <<>> THEN FALSE
    ELSE IF Rank(Head(k1)) # Rank(Head(k2)) THEN Rank(Head(k1)) < Rank(Head(k2))
    ELSE KeyLess(Tail(k1), Tail(k2))

RECURSIVE SortKeys(_)
SortKeys(S) ==
    IF S = {} THEN <<>>
    ELSE LET m == CHOOSE k \in S : \A o \in S \ {k} : KeyLess(k, o)
         IN  <<m>> \o SortKeys(S \ {m})

RECURSIVE Concat(_)
Concat(ss) == IF ss = <<>> THEN <<>> ELSE Head(ss) \o Concat(Tail(ss))

Range(s) == {s[i] : i \in 1..Len(s)}

\* [c for c in candidates if c in cols]
PresentIn(cands, cols) == SelectSeq(cands, LAMBDA c : c \in cols)

KeyOf(row, kcols) == [i \in 1..Len(kcols) |-> row[kcols[i]]]

RowsWithKey(rows, kcols, k) == SelectSeq(rows, LAMBDA r : KeyOf(r, kcols) = k)

KeysOf(rows, kcols) == {KeyOf(rows[i], kcols) : i \in 1..Len(rows)}

\* pandas reducers; each skips missing values
RECURSIVE SumCol(_, _)
SumCol(rows, c) ==
    IF rows = <<>> THEN 0
    ELSE (IF IsNaN(Head(rows)[c]) THEN 0 ELSE Head(rows)[c]) + SumCol(Tail(rows), c)

RECURSIVE CountCol(_, _)
CountCol(rows, c) ==
    IF rows = <<>> THEN 0
    ELSE (IF IsNaN(Head(rows)[c]) THEN 0 ELSE 1) + CountCol(Tail(rows), c)

MeanCol(rows, c) == Rat(SumCol(rows, c), CountCol(rows, c))

RECURSIVE FirstCol(_, _)
FirstCol(rows, c) ==
    IF rows = <<>> THEN NaNS
    ELSE IF IsNaS(Head(rows)[c]) THEN FirstCol(Tail(rows), c) ELSE Head(rows)[c]

\* groupby with pandas' default dropna=True: rows with a missing key
\* component are left out
GroupByDropNa(df, gcols, sums, means, firsts) ==
    LET kept == SelectSeq(df.rows,
                    LAMBDA r : \A i \in 1..Len(gcols) : ~IsNaS(r[gcols[i]]))
        keys == SortKeys(KeysOf(kept, gcols))
        cols == Range(gcols) \cup sums \cup means \cup firsts
    IN  [cols |-> cols,
         rows |-> [i \in 1..Len(keys) |->
            LET g == RowsWithKey(kept, gcols, keys[i])
            IN  [c \in cols |->
                    IF c \in Range(gcols) THEN g[1][c]
                    ELSE IF c \in sums THEN SumCol(g, c)
                    ELSE IF c \in means THEN MeanCol(g, c)
                    ELSE FirstCol(g, c)]]]

\* df.groupby(group_cols, dropna=False).agg(agg).reset_index(): one row per
\* distinct key, keys sorted, a missing key component being a key value
GroupBy(df, gcols, sums, means, firsts) ==
    LET keys == SortKeys(KeysOf(df.rows, gcols))
        cols == Range(gcols) \cup sums \cup means \cup firsts
    IN  [cols |-> cols,
         rows |-> [i \in 1..Len(keys) |->
            LET g == RowsWithKey(df.rows, gcols, keys[i])
            IN  [c \in cols |->
                    IF c \in Range(gcols) THEN g[1][c]
                    ELSE IF c \in sums THEN SumCol(g, c)
                    ELSE IF c \in means THEN MeanCol(g, c)
                    ELSE FirstCol(g, c)]]]

-----------------------------------------------------------------------------
(* Source loaders *)

\* load_perf: keep the voice rows when there is a Media Type column
load_perf(csv) ==
    IF "Media Type" \in csv.cols
    THEN [csv EXCEPT !.rows = SelectSeq(csv.rows,
             LAMBDA r : (IF IsNaS(r["Media Type"]) THEN "" ELSE r["Media Type"]) = "voice")]
    ELSE csv

load_status(csv) == csv

-----------------------------------------------------------------------------
(* Aggregators *)

group_cols(df) == PresentIn(KeyCandidates, df.cols)

aggregate_perf_DropNa(df) ==
    GroupByDropNa(df, group_cols(df), PerfSumCols \cap df.cols,
                  PerfMeanCols \cap df.cols, {})

aggregate_perf(df) ==
    GroupBy(df, group_cols(df), PerfSumCols \cap df.cols,
            PerfMeanCols \cap df.cols, {})

aggregate_status(df) ==
    GroupBy(df, group_cols(df), StatusSumCols \cap df.cols, {},
            StatusFirstCols \cap df.cols)

\* groupby with an empty list of keys raises ("No group keys passed!")
aggregate_raises(df) == group_cols(df) = <<>>

-----------------------------------------------------------------------------
(* Merge / reconciliation *)

\* pd.merge(L, R, on=jcols, how='outer'): the union of the keys, sorted;
\* missing keys match each other; the side without a match is null-filled
OuterMerge(L, R, jcols) ==
    LET cols == L.cols \cup R.cols
        keys == SortKeys(KeysOf(L.rows, jcols) \cup KeysOf(R.rows, jcols))
        Both(l, r) == [c \in cols |-> IF c \in L.cols THEN l[c] ELSE r[c]]
        LeftOnly(l) == [c \in cols |-> IF c \in L.cols THEN l[c] ELSE NullOf(c)]
        RightOnly(r) == [c \in cols |-> IF c \in R.cols THEN r[c] ELSE NullOf(c)]
        ForKey(k) ==
            LET ls == RowsWithKey(L.rows, jcols, k)
                rs == RowsWithKey(R.rows, jcols, k)
            IN  IF rs = <<>> THEN [i \in 1..Len(ls) |-> LeftOnly(ls[i])]
                ELSE IF ls = <<>> THEN [i \in 1..Len(rs) |-> RightOnly(rs[i])]
                ELSE [n \in 1..(Len(ls) * Len(rs)) |->
                        Both(ls[((n - 1) \div Len(rs)) + 1], rs[((n - 1) % Len(rs)) + 1])]
    IN  [cols |-> cols,
         rows |-> Concat([i \in 1..Len(keys) |-> ForKey(keys[i])])]

\* how='inner': only the keys present on both sides
InnerMerge(L, R, jcols) ==
    LET cols == L.cols \cup R.cols
        keys == SortKeys(KeysOf(L.rows, jcols) \cap KeysOf(R.rows, jcols))
        Both(l, r) == [c \in cols |-> IF c \in L.cols THEN l[c] ELSE r[c]]
        ForKey(k) ==
            LET ls == RowsWithKey(L.rows, jcols, k)
                rs == RowsWithKey(R.rows, jcols, k)
            IN  [n \in 1..(Len(ls) * Len(rs)) |->
                    Both(ls[((n - 1) \div Len(rs)) + 1], rs[((n - 1) % Len(rs)) + 1])]
    IN  [cols |-> cols,
         rows |-> Concat([i \in 1..Len(keys) |-> ForKey(keys[i])])]

\* pd.merge(L, R, on=jcols, how='left'): the rows of L in their order, each
\* once per matching row of R, or once null-filled when none matches
LeftMerge(L, R, jcols) ==
    LET cols == L.cols \cup R.cols
        Both(l, r) == [c \in cols |-> IF c \in L.cols THEN l[c] ELSE r[c]]
        LeftOnly(l) == [c \in cols |-> IF c \in L.cols THEN l[c] ELSE NullOf(c)]
        ForRow(l) ==
            LET rs == RowsWithKey(R.rows, jcols, KeyOf(l, jcols))
            IN  IF rs = <<>> THEN <<LeftOnly(l)>>
                ELSE [i \in 1..Len(rs) |-> Both(l, rs[i])]
    IN  [cols |-> cols,
         rows |-> Concat([i \in 1..Len(L.rows) |-> ForRow(L.rows[i])])]

FallbackCandidates == <<"Agent Id", "Agent Name">>

\* join_cols with the first list lacking the two agent columns, which
\* leaves them to the second list
join_cols_AgentsBySecondList(pa, sa) ==
    LET wide == PresentIn(<<"Interval Start", "Division Name">>, pa.cols \cap sa.cols)
    IN  IF wide = <<>> THEN PresentIn(FallbackCandidates, pa.cols \cap sa.cols)
        ELSE wide

\* the join_cols of merge_perf_status
join_cols(pa, sa) ==
    LET wide == PresentIn(KeyCandidates, pa.cols \cap sa.cols)
    IN  IF wide = <<>> THEN PresentIn(FallbackCandidates, pa.cols \cap sa.cols)
        ELSE wide

merge_perf_status_Inner(pa, sa) == InnerMerge(pa, sa, join_cols(pa, sa))

merge_perf_status(pa, sa) == OuterMerge(pa, sa, join_cols(pa, sa))

-----------------------------------------------------------------------------
(* Booking.  A booking table is [cols |-> sequence of headers, rows]; the  *)
(* headers come from BookingHeaders, for which strip() and upper() are     *)
(* tabulated.                                                              *)

BookingHeaders == {"CC_CLERK_NAME", " cc_clerk_name ", "Agent Name", "AGENT_NAME",
                   "Clerk", "NO_OF_BOOKED_APPT", "Booked", " booked total", "Count"}

\* str(c).strip().upper()
StripUpper(h) ==
    CASE h \in {"CC_CLERK_NAME", " cc_clerk_name "} -> "CC_CLERK_NAME"
      [] h = "Agent Name" -> "AGENT NAME"
      [] h = "AGENT_NAME" -> "AGENT_NAME"
      [] h = "Clerk" -> "CLERK"
      [] h = "NO_OF_BOOKED_APPT" -> "NO_OF_BOOKED_APPT"
      [] h = "Booked" -> "BOOKED"
      [] h = " booked total" -> "BOOKED TOTAL"
      [] h = "Count" -> "COUNT"

\* 'NO_OF_BOOKED_APPT' in str(c).upper() or 'BOOKED' in str(c).upper()
UpperContainsBooked(h) == h \in {"NO_OF_BOOKED_APPT", "Booked", " booked total"}

NameAliases == {"CC_CLERK_NAME", "AGENT_NAME", "AGENT NAME"}

NoCol == ""

\* the first header among the accepted ones (the loop with break), NoCol when none
FirstMatch(hs, accepted) ==
    IF \E i \in 1..Len(hs) : hs[i] \in accepted
    THEN hs[CHOOSE i \in 1..Len(hs) : hs[i] \in accepted /\ \A j \in 1..(i - 1) : hs[j] \notin accepted]
    ELSE NoCol

\* the name column looked up without strip() and upper()
name_col_NoStrip(df) == FirstMatch(df.cols, NameAliases)

name_col(df) == FirstMatch(df.cols, {h \in BookingHeaders : StripUpper(h) \in NameAliases})
count_col(df) == FirstMatch(df.cols, {h \in BookingHeaders : UpperContainsBooked(h)})

\* aggregate_booking raises ValueError when either column is not found
aggregate_booking_raises(df) == name_col(df) = NoCol \/ count_col(df) = NoCol

NotNumeric == 0 - 3

\* .astype(str) of a name cell; pd.to_numeric(errors='coerce').fillna(0.0)
AsTypeStr(v) == IF IsNaS(v) THEN "nan" ELSE v
ToNumericOrZero(v) == IF v = NotNumeric \/ IsNaN(v) THEN 0 ELSE v

booking_df2(df) ==
    [cols |-> {"Agent Name", "Total Inbound Booking"},
     rows |-> [i \in 1..Len(df.rows) |->
        [c \in {"Agent Name", "Total Inbound Booking"} |->
            IF c = "Agent Name" THEN AsTypeStr(df.rows[i][name_col(df)])
            ELSE ToNumericOrZero(df.rows[i][count_col(df)])]]]

\* the rest of aggregate_booking: one row per agent name, counts summed
aggregate_booking(df) ==
    GroupBy(booking_df2(df), <<"Agent Name">>, {"Total Inbound Booking"}, {}, {})

merge_booking_Inner(m, ba) ==
    IF "Agent Name" \in m.cols /\ "Agent Name" \in ba.cols
    THEN InnerMerge(m, ba, <<"Agent Name">>)
    ELSE m

\* run_from_paths, lines 276-277
merge_booking(m, ba) ==
    IF "Agent Name" \in m.cols /\ "Agent Name" \in ba.cols
    THEN LeftMerge(m, ba, <<"Agent Name">>)
    ELSE m

drop_unnamed_KeepAll(m) == m

\* run_from_paths, lines 279-280
drop_unnamed(m) ==
    IF "Agent Name" \in m.cols
    THEN [m EXCEPT !.rows = SelectSeq(m.rows, LAMBDA r : ~IsNaS(r["Agent Name"]))]
    ELSE m

-----------------------------------------------------------------------------
(* Template writer.  A worksheet is openpyxl's sparse cell map: a function *)
(* from the <<row, column>> pairs that exist to cells [k, s, n, d].        *)

CEmpty == [k |-> "empty", s |-> "", n |-> 0, d |-> 0]
CNaN == [k |-> "nan", s |-> "", n |-> 0, d |-> 0]
CText(v) == [k |-> "str", s |-> v, n |-> 0, d |-> 0]
CInt(v) == [k |-> "int", s |-> "", n |-> v, d |-> 0]
CFloat(q) == [k |-> "float", s |-> "", n |-> q.num, d |-> q.den]
CTime(t) == [k |-> "time", s |-> "", n |-> t[1], d |-> t[2] * SecondsPerMinute + t[3]]
\* dt.datetime.combine(date_val, dt.time(6, 30))
CStamp(date) == [k |-> "datetime", s |-> date, n |-> 6, d |-> 30]
CFormula(f, r) == [k |-> "formula", s |-> f, n |-> r, d |-> 0]

\* a string-column value as a cell value: None empties the cell
CStr(v) == IF v = NoneS THEN CEmpty ELSE IF v = NaNS THEN CNaN ELSE CText(v)

FirstDataRow == 3
LastWritableCol == 14

Cell(sheet, r, c) == IF <<r, c>> \in DOMAIN sheet THEN sheet[<<r, c>>] ELSE CEmpty

RECURSIVE SetMax(_)
SetMax(S) == IF S = {} THEN 0
             ELSE LET x == CHOOSE x \in S : TRUE
                      m == SetMax(S \ {x})
                  IN  IF x > m THEN x ELSE m

\* ws.max_row: the last row that has a cell, 1 for an empty sheet
max_row(sheet) == IF DOMAIN sheet = {} THEN 1 ELSE SetMax({p[1] : p \in DOMAIN sheet})

\* sheet with the cells of w (a function on pairs) assigned
Assign(sheet, w) ==
    [p \in DOMAIN sheet \cup DOMAIN w |-> IF p \in DOMAIN w THEN w[p] ELSE sheet[p]]

ClearRegion_FromRow1(sheet) ==
    Assign(sheet, [p \in (1..max_row(sheet)) \X (1..LastWritableCol) |-> CEmpty])

\* the clearing loop stopping one column early, at M
ClearRegion_ToColM(sheet) ==
    Assign(sheet, [p \in (FirstDataRow..max_row(sheet)) \X (1..(LastWritableCol - 1)) |-> CEmpty])

\* lines 161-164: blank columns A..N of rows 3..max_row
ClearRegion(sheet) ==
    Assign(sheet, [p \in (FirstDataRow..max_row(sheet)) \X (1..LastWritableCol) |-> CEmpty])

Today == "today"

\* parse_interval_date: '%d/%m/%y %H:%M', then '%m/%d/%y %H:%M', else today
parse_interval_date(val) ==
    CASE val = "13/01/24 08:00" -> "2024-01-13"
      [] val = "01/13/24 08:00" -> "2024-01-13"
      [] OTHER -> Today

RowGet(df, i, c, default) == IF c \in df.cols THEN df.rows[i][c] ELSE default

\* lines 205-209: "if total_handle_sec and answered" is false for a total
\* handle of None and for one of 0.0
avg_handle_sec(th, answered, raw_avg) ==
    IF ~IsNaN(th) /\ th # 0 /\ answered # 0 THEN Rat(th, answered)
    ELSE raw_avg

\* the locals fill_template computes for row i of df (lines 170-211)
RowLocals(df, i) ==
    LET interval_start == RowGet(df, i, "Interval Start", NoneS)
        raw_answered == RowGet(df, i, "Answered", NoneN)
        raw_outbound == RowGet(df, i, "Outbound", NoneN)
        raw_booking == RowGet(df, i, "Total Inbound Booking", 0)
        raw_acw == RowGet(df, i, "Total ACW", NoneN)
        raw_th == RowGet(df, i, "Total Handle", NoneN)
        answered == IF IsNaN(raw_answered) THEN 0 ELSE raw_answered
        acw == IF IsNaN(raw_acw) THEN 0 ELSE raw_acw
        avg == avg_handle_sec(IF IsNaN(raw_th) THEN NoneN ELSE raw_th, answered,
                              RowGet(df, i, "Avg Handle", NoneRat))
    IN  [agent_name |-> RowGet(df, i, "Agent Name", ""),
         division |-> RowGet(df, i, "Division Name", ""),
         date_val |-> IF IsNaS(interval_start) THEN Today
                      ELSE parse_interval_date(interval_start),
         log_in_raw |-> RowGet(df, i, "Log In", NoneS),
         log_out_raw |-> RowGet(df, i, "Log Out", NoneS),
         logged_in_seconds |-> RowGet(df, i, "Logged In", NoneN),
         logged_in_duration |-> seconds_to_excel_time(RowGet(df, i, "Logged In", NoneN)),
         answered |-> answered,
         inq_amb |-> answered,
         outbound |-> IF IsNaN(raw_outbound) THEN 0 ELSE raw_outbound,
         inbound_booking |-> IF IsNaN(raw_booking) THEN 0 ELSE raw_booking,
         total_acw_sec |-> acw,
         total_acw_excel |-> seconds_to_excel_time(acw),
         avg_handle_sec |-> avg,
         avg_handle_time |-> seconds_to_hhmmss_time(avg)]

\* the cells lines 213-232 assign in row r
RowCells(v, r) ==
    LET colsWritten == ((1..13) \ (IF IsNoneRat(v.logged_in_duration) THEN {6} ELSE {}))
                        \cup (IF v.avg_handle_time = NoTime THEN {} ELSE {14})
    IN  [p \in {r} \X colsWritten |->
            CASE p[2] = 1 -> CStamp(v.date_val)
              [] p[2] = 2 -> CStr(v.agent_name)
              [] p[2] = 3 -> CStr(v.division)
              [] p[2] = 4 -> CStr(v.log_in_raw)
              [] p[2] = 5 -> CStr(v.log_out_raw)
              [] p[2] = 6 -> CFloat(v.logged_in_duration)
              [] p[2] = 7 -> CInt(v.answered)
              [] p[2] = 8 -> CInt(v.inq_amb)
              [] p[2] = 9 -> CInt(v.outbound)
              [] p[2] = 10 -> CInt(v.inbound_booking)
              [] p[2] = 11 -> CFormula("=MAX(0,IFERROR(J{r}/(G{r}-H{r}),0))", r)
              [] p[2] = 12 -> CFormula("=G{r}+I{r}", r)
              [] p[2] = 13 -> CFloat(v.total_acw_excel)
              [] p[2] = 14 -> CTime(v.avg_handle_time)]

\* the flat record lines 234-247 append
FlatRecord(v) ==
    [Date |-> v.date_val,
     AgentName |-> v.agent_name,
     DivisionName |-> v.division,
     LogInTime |-> v.log_in_raw,
     LogOutTime |-> v.log_out_raw,
     TotalLoggedInDurationSec |-> v.logged_in_seconds,
     TotalAnsweredCalls |-> v.answered,
     AnsweredInqAmbQueueCalls |-> v.inq_amb,
     OutboundCalls |-> v.outbound,
     TotalInboundBooking |-> v.inbound_booking,
     TotalWrapUpAcwSec |-> v.total_acw_sec,
     AvgHandleTimeSec |-> v.avg_handle_sec]

-----------------------------------------------------------------------------
(* run_from_paths and fill_template as a step machine *)

EmptyDf == [cols |-> {}, rows |-> <<>>]
NoFile == [exists |-> FALSE, content |-> <<>>]
EmptySheet == [p \in {} |-> CEmpty]

Idle == /\ perf_df = EmptyDf /\ status_df = EmptyDf
        /\ perf_agg = EmptyDf /\ status_agg = EmptyDf /\ merged = EmptyDf
        /\ ws = EmptySheet /\ records = <<>> /\ row_idx = FirstDataRow /\ df_pos = 1
        /\ out_xlsx = NoFile /\ out_csv = NoFile /\ failed_at = ""

inputs == <<perf_csv, status_csv, booking, template>>
codec == <<seconds, clock>>

Raise(step) ==
    /\ pc' = "failed" /\ failed_at' = step
    /\ UNCHANGED <<inputs, codec, perf_df, status_df, perf_agg, status_agg, merged,
                   ws, records, row_idx, df_pos, out_xlsx, out_csv>>

\* line 267
LoadPerf ==
    /\ pc = "load_perf" /\ perf_csv.exists
    /\ perf_df' = load_perf([cols |-> perf_csv.cols, rows |-> perf_csv.rows])
    /\ pc' = "load_status"
    /\ UNCHANGED <<inputs, codec, status_df, perf_agg, status_agg, merged, ws, records,
                   row_idx, df_pos, out_xlsx, out_csv, failed_at>>

\* line 268
LoadStatus ==
    /\ pc = "load_status" /\ status_csv.exists
    /\ status_df' = load_status([cols |-> status_csv.cols, rows |-> status_csv.rows])
    /\ pc' = "aggregate_perf"
    /\ UNCHANGED <<inputs, codec, perf_df, perf_agg, status_agg, merged, ws, records,
                   row_idx, df_pos, out_xlsx, out_csv, failed_at>>

\* pd.read_csv of a path that is not there raises
LoadRaises ==
    /\ \/ pc = "load_perf" /\ ~perf_csv.exists
       \/ pc = "load_status" /\ ~status_csv.exists
    /\ Raise(pc)

\* line 269
AggregatePerf ==
    /\ pc = "aggregate_perf" /\ ~aggregate_raises(perf_df)
    /\ perf_agg' = aggregate_perf(perf_df)
    /\ pc' = "aggregate_status"
    /\ UNCHANGED <<inputs, codec, perf_df, status_df, status_agg, merged, ws, records,
                   row_idx, df_pos, out_xlsx, out_csv, failed_at>>

\* line 270
AggregateStatus ==
    /\ pc = "aggregate_status" /\ ~aggregate_raises(status_df)
    /\ status_agg' = aggregate_status(status_df)
    /\ pc' = "merge"
    /\ UNCHANGED <<inputs, codec, perf_df, status_df, perf_agg, merged, ws, records,
                   row_idx, df_pos, out_xlsx, out_csv, failed_at>>

AggregateRaises ==
    /\ \/ pc = "aggregate_perf" /\ aggregate_raises(perf_df)
       \/ pc = "aggregate_status" /\ aggregate_raises(status_df)
    /\ Raise(pc)

\* line 271.  With an empty join_cols pd.merge either raises or pairs every
\* row with every row, depending on the pandas at hand: both are allowed.
Merge ==
    /\ pc = "merge"
    /\ merged' = merge_perf_status(perf_agg, status_agg)
    /\ pc' = "booking"
    /\ UNCHANGED <<inputs, codec, perf_df, status_df, perf_agg, status_agg, ws, records,
                   row_idx, df_pos, out_xlsx, out_csv, failed_at>>

MergeRaises ==
    /\ pc = "merge" /\ join_cols(perf_agg, status_agg) = <<>>
    /\ Raise(pc)

booking_df == [cols |-> booking.cols, rows |-> booking.rows]

\* line 273 false: no booking path, or no file at it
BookingSkip ==
    /\ pc = "booking" /\ ~(booking.given /\ booking.exists)
    /\ pc' = "dropna"
    /\ UNCHANGED <<inputs, codec, perf_df, status_df, perf_agg, status_agg, merged, ws,
                   records, row_idx, df_pos, out_xlsx, out_csv, failed_at>>

\* lines 274-277
BookingMerge ==
    /\ pc = "booking" /\ booking.given /\ booking.exists
    /\ ~aggregate_booking_raises(booking_df)
    /\ merged' = merge_booking(merged, aggregate_booking(booking_df))
    /\ pc' = "dropna"
    /\ UNCHANGED <<inputs, codec, perf_df, status_df, perf_agg, status_agg, ws, records,
                   row_idx, df_pos, out_xlsx, out_csv, failed_at>>

BookingRaises ==
    /\ pc = "booking" /\ booking.given /\ booking.exists
    /\ aggregate_booking_raises(booking_df)
    /\ Raise(pc)

\* lines 279-280
DropUnnamed ==
    /\ pc = "dropna"
    /\ merged' = drop_unnamed(merged)
    /\ pc' = "open"
    /\ UNCHANGED <<inputs, codec, perf_df, status_df, perf_agg, status_agg, ws, records,
                   row_idx, df_pos, out_xlsx, out_csv, failed_at>>

\* fill_template, lines 158-159
Open ==
    /\ pc = "open" /\ template.exists
    /\ ws' = template.cells
    /\ pc' = "clear"
    /\ UNCHANGED <<inputs, codec, perf_df, status_df, perf_agg, status_agg, merged,
                   records, row_idx, df_pos, out_xlsx, out_csv, failed_at>>

OpenRaises ==
    /\ pc = "open" /\ ~template.exists
    /\ Raise(pc)

\* lines 161-167
Clear ==
    /\ pc = "clear"
    /\ ws' = ClearRegion(ws)
    /\ records' = <<>> /\ row_idx' = FirstDataRow /\ df_pos' = 1
    /\ pc' = "write"
    /\ UNCHANGED <<inputs, codec, perf_df, status_df, perf_agg, status_agg, merged,
                   out_xlsx, out_csv, failed_at>>

\* the loop advancing row_idx by two
WriteRow_Gap ==
    /\ pc = "write" /\ df_pos <= Len(merged.rows)
    /\ LET v == RowLocals(merged, df_pos)
       IN  /\ ws' = Assign(ws, RowCells(v, row_idx))
           /\ records' = Append(records, FlatRecord(v))
    /\ row_idx' = row_idx + 2
    /\ df_pos' = df_pos + 1
    /\ UNCHANGED <<pc, inputs, codec, perf_df, status_df, perf_agg, status_agg, merged,
                   out_xlsx, out_csv, failed_at>>

\* one iteration of the loop of lines 169-249
WriteRow ==
    /\ pc = "write" /\ df_pos <= Len(merged.rows)
    /\ LET v == RowLocals(merged, df_pos)
       IN  /\ ws' = Assign(ws, RowCells(v, row_idx))
           /\ records' = Append(records, FlatRecord(v))
    /\ row_idx' = row_idx + 1
    /\ df_pos' = df_pos + 1
    /\ UNCHANGED <<pc, inputs, codec, perf_df, status_df, perf_agg, status_agg, merged,
                   out_xlsx, out_csv, failed_at>>

\* lines 251-252
Save ==
    /\ pc = "write" /\ df_pos > Len(merged.rows)
    /\ out_xlsx' = [exists |-> TRUE, content |-> ws]
    /\ pc' = "to_csv"
    /\ UNCHANGED <<inputs, codec, perf_df, status_df, perf_agg, status_agg, merged, ws,
                   records, row_idx, df_pos, out_csv, failed_at>>

\* mkdir or wb.save raises (no permission, disk full, target open elsewhere)
SaveRaises ==
    /\ pc = "write" /\ df_pos > Len(merged.rows)
    /\ Raise("save")

\* lines 254-255
ToCsv ==
    /\ pc = "to_csv"
    /\ out_csv' = [exists |-> TRUE, content |-> records]
    /\ pc' = "done"
    /\ UNCHANGED <<inputs, codec, perf_df, status_df, perf_agg, status_agg, merged, ws,
                   records, row_idx, df_pos, out_xlsx, failed_at>>

\* mkdir or to_csv raises, after the workbook was saved
ToCsvRaises ==
    /\ pc = "to_csv"
    /\ Raise(pc)

Next ==
    \/ LoadPerf \/ LoadStatus \/ LoadRaises
    \/ AggregatePerf \/ AggregateStatus \/ AggregateRaises
    \/ Merge \/ MergeRaises
    \/ BookingSkip \/ BookingMerge \/ BookingRaises
    \/ DropUnnamed
    \/ Open \/ OpenRaises \/ Clear \/ WriteRow
    \/ Save \/ SaveRaises \/ ToCsv \/ ToCsvRaises

-----------------------------------------------------------------------------
(* Inputs *)

SeqsUpTo(S, n) == UNION {[1..k -> S] : k \in 0..n}
Restrict(f, cols) == [c \in cols |-> f[c]]
Csv(cols, rows) == [exists |-> TRUE, cols |-> cols, rows |-> rows]
MissingCsv == [exists |-> FALSE, cols |-> {}, rows |-> <<>>]

\* the agents of the exports: the last one has no display name
Smith == [id |-> "id1", name |-> "A. Smith"]
Jones == [id |-> "id2", name |-> "B. Jones"]
Unnamed == [id |-> "id3", name |-> NaNS]

PerfRow(a, interval, media, answered, outbound, acw, handle, avg) ==
    [c \in Range(KeyCandidates) \cup PerfSumCols \cup PerfMeanCols \cup {"Media Type"} |->
        CASE c = "Interval Start" -> interval
          [] c = "Agent Id" -> a.id
          [] c = "Agent Name" -> a.name
          [] c = "Division Name" -> "Div1"
          [] c = "Media Type" -> media
          [] c = "Answered" -> answered
          [] c = "Outbound" -> outbound
          [] c = "Total ACW" -> acw
          [] c = "Total Handle" -> handle
          [] c = "Avg Handle" -> avg]

StatusRow(a, interval, logged, login) ==
    [c \in Range(KeyCandidates) \cup StatusSumCols \cup StatusFirstCols |->
        CASE c = "Interval Start" -> interval
          [] c = "Agent Id" -> a.id
          [] c = "Agent Name" -> a.name
          [] c = "Division Name" -> "Div1"
          [] c = "Logged In" -> logged
          [] c = "Log In" -> login
          [] c = "Log Out" -> "17:00"]

Slot1 == "13/01/24 08:00"
Slot2 == "01/13/24 08:00"

PlainPerfRow(a, interval) == PerfRow(a, interval, "voice", 5, 1, 30, 300, 60)
PlainStatusRow(a) == StatusRow(a, Slot1, 28800, "08:00")

MkCsv(cols, rows) == Csv(cols, [i \in 1..Len(rows) |-> Restrict(rows[i], cols)])

\* a template with rows 1..last: header cells in rows 1-2, values of an
\* earlier run in the columns of stale below them, and a note to the right
\* of column N in every row
HeaderCols == {1, 2, LastWritableCol, LastWritableCol + 1}
Template(last, stale) ==
    [exists |-> TRUE,
     cells |-> [p \in ((1..(FirstDataRow - 1)) \X HeaderCols)
                      \cup ((FirstDataRow..last) \X (stale \cup {LastWritableCol + 1})) |->
        IF p[2] > LastWritableCol THEN CText("note")
        ELSE IF p[1] < FirstDataRow THEN CText("header")
        ELSE CText("old")]]
MissingTemplate == [exists |-> FALSE, cells |-> EmptySheet]
BaseTemplate == Template(4, {2, 6})

NoBooking == [given |-> FALSE, exists |-> FALSE, cols |-> <<>>, rows |-> <<>>]
AbsentBooking == [given |-> TRUE, exists |-> FALSE, cols |-> <<>>, rows |-> <<>>]
\* a booking file with the given headers; each row is <<name, count>>
BookingFile(cols, rows) ==
    [given |-> TRUE, exists |-> TRUE, cols |-> cols,
     rows |-> [i \in 1..Len(rows) |->
        [h \in Range(cols) |->
            IF StripUpper(h) \in NameAliases \cup {"CLERK"} THEN rows[i][1]
            ELSE rows[i][2]]]]

WellFormedHeaders == {<<"CC_CLERK_NAME", "NO_OF_BOOKED_APPT">>,
                      <<" booked total", " cc_clerk_name ">>,
                      <<"Clerk", "Agent Name", "Count", "Booked">>}
MalformedHeaders == {<<"Clerk", "Booked">>, <<"AGENT_NAME", "Count">>,
                     <<"Clerk", "Count">>}

BasePerfCols == {"Agent Id", "Agent Name", "Media Type", "Answered", "Outbound",
                 "Total ACW", "Total Handle", "Avg Handle"}
BaseStatusCols == {"Agent Id", "Agent Name", "Logged In", "Log In", "Log Out"}
BasePerfRows == <<PlainPerfRow(Smith, Slot1), PlainPerfRow(Unnamed, Slot1)>>
BaseStatusRows == <<PlainStatusRow(Smith), PlainStatusRow(Jones)>>
BaseBookingRows == <<<<"A. Smith", 2>>, <<"A. Smith", 1>>>>

Start == pc = "load_perf" /\ Idle /\ seconds = NoneRat /\ clock = NoTime

\* the control-flow family: every way a step can raise or be skipped
Init ==
    /\ Start
    /\ perf_csv \in {MkCsv(BasePerfCols, BasePerfRows),
                     MkCsv({"Agent Id", "Answered"}, BasePerfRows),
                     MkCsv({"Answered"}, BasePerfRows),
                     MissingCsv}
    /\ status_csv \in {MkCsv(BaseStatusCols, BaseStatusRows),
                       MkCsv({"Agent Name", "Logged In"}, BaseStatusRows),
                       MkCsv({"Logged In"}, BaseStatusRows),
                       MissingCsv}
    /\ booking \in {NoBooking, AbsentBooking}
                   \cup {BookingFile(h, BaseBookingRows) :
                            h \in WellFormedHeaders \cup MalformedHeaders}
    /\ template \in {BaseTemplate, MissingTemplate}

Spec == Init /\ [][Next]_vars

-----------------------------------------------------------------------------
(* The time codec on its own: seconds_to_hhmmss_time applied to every     *)
(* multiple of half a second from -MaxNegSeconds to MaxSeconds, and None. *)

MaxNegSeconds == 3
MaxSeconds == 90000

ClockInit ==
    /\ pc = "codec" /\ Idle
    /\ perf_csv = MissingCsv /\ status_csv = MissingCsv
    /\ booking = NoBooking /\ template = MissingTemplate
    /\ seconds \in {Rat(n, 2) : n \in (0 - 2 * MaxNegSeconds)..(2 * MaxSeconds)} \cup {NoneRat}
    /\ clock = NoTime

Convert ==
    /\ pc = "codec"
    /\ clock' = seconds_to_hhmmss_time(seconds)
    /\ pc' = "codec_done"
    /\ UNCHANGED <<inputs, seconds, perf_df, status_df, perf_agg, status_agg, merged,
                   ws, records, row_idx, df_pos, out_xlsx, out_csv, failed_at>>

ClockNext == Convert

SpecClock == ClockInit /\ [][ClockNext]_vars

\* C10: seconds_to_hhmmss_time yields a valid time of day for every numeric
\* input; for whole seconds x it is 00:00:00 when x < 0, 23:59:59 when
\* x >= 86400, and (x div 3600, (x mod 3600) div 60, x mod 60) in between.
C10_ValidClampedTime ==
    (pc = "codec_done" /\ ~IsNoneRat(seconds)) =>
        /\ clock # NoTime
        /\ clock[1] \in 0..23 /\ clock[2] \in 0..59 /\ clock[3] \in 0..59
        /\ seconds.num % seconds.den = 0 =>
            LET x == seconds.num \div seconds.den
            IN  /\ x < 0 => clock = <<0, 0, 0>>
                /\ x >= 86400 => clock = <<23, 59, 59>>
                /\ (0 <= x /\ x < 86400) =>
                      clock = <<x \div 3600, (x % 3600) \div 60, x % 60>>

\* 90000 seconds (25 hours) was converted and came out as 23:59:59
C10_Witness ==
    pc = "codec_done" /\ seconds = Rat(2 * 90000, 2) /\ clock = <<23, 59, 59>>

-----------------------------------------------------------------------------
(* Claims on the control flow, checked under Spec *)

\* C5: a run produces both output files or fails and leaves neither: after
\* a failure at any step the workbook of this run never exists without the
\* flat file of this run.
C5_BothOrNeither ==
    pc = "failed" => ~(out_xlsx.exists /\ ~out_csv.exists)

\* the booking file lacks a name column or a booked-count column, as the
\* claim words it
C6_Malformed ==
    \/ \A i \in 1..Len(booking.cols) :
          StripUpper(booking.cols[i]) \notin {"CC_CLERK_NAME", "AGENT_NAME", "AGENT NAME"}
    \/ \A i \in 1..Len(booking.cols) : ~UpperContainsBooked(booking.cols[i])

\* C6: the booking step raises only for a booking file that exists and is
\* malformed (never for a path that is None or names no file), and a run
\* with such a file never reaches fill_template: it fails at the booking
\* step with no worksheet opened and neither output written.
C6_BookingOptionalNotTolerant ==
    /\ failed_at = "booking" => (booking.given /\ booking.exists /\ C6_Malformed)
    /\ (booking.given /\ booking.exists /\ C6_Malformed) =>
          /\ pc \notin {"dropna", "open", "clear", "write", "to_csv", "done"}
          /\ failed_at \notin {"open", "save", "to_csv"}
          /\ ws = EmptySheet /\ records = <<>>
          /\ ~out_xlsx.exists /\ ~out_csv.exists
    /\ (pc = "dropna" /\ ~(booking.given /\ booking.exists)) =>
          merged = merge_perf_status(perf_agg, status_agg)

\* a booking file without a booked-count column stopped the run at the
\* booking step, before any output
C6_Witness ==
    /\ pc = "failed" /\ failed_at = "booking"
    /\ booking.cols = <<"AGENT_NAME", "Count">>
    /\ ~out_xlsx.exists /\ ~out_csv.exists

-----------------------------------------------------------------------------
(* The key family: exports with differing sets of key columns, at most    *)
(* MaxRows rows between them, agents with and without a display name.     *)

MaxRows == 3

KeyColChoices == {{"Agent Name"}, {"Agent Id"}, {"Agent Id", "Agent Name"},
                  Range(KeyCandidates)}

KeysInit ==
    /\ Start
    /\ \E pk \in KeyColChoices, sk \in KeyColChoices :
       \E p \in SeqsUpTo({PlainPerfRow(a, t) : a \in {Smith, Jones, Unnamed}, t \in {Slot1, Slot2}},
                         MaxRows),
          st \in SeqsUpTo({PlainStatusRow(a) : a \in {Smith, Jones, Unnamed}}, MaxRows) :
          /\ Len(p) + Len(st) <= MaxRows
          /\ perf_csv = MkCsv(pk \cup {"Answered"}, p)
          /\ status_csv = MkCsv(sk \cup {"Logged In"}, st)
    /\ booking \in {NoBooking, BookingFile(<<"CC_CLERK_NAME", "NO_OF_BOOKED_APPT">>,
                                           BaseBookingRows)}
    /\ template = BaseTemplate

SpecKeys == (Init \/ KeysInit) /\ [][Next]_vars

\* the key columns the two aggregates share, in candidate order
C1_SharedKey == PresentIn(KeyCandidates, perf_agg.cols \cap status_agg.cols)

C1_Count(rows, k) == Len(RowsWithKey(rows, C1_SharedKey, k))

RECURSIVE C1_OuterCount(_)
C1_OuterCount(keys) ==
    IF keys = {} THEN 0
    ELSE LET k == CHOOSE k \in keys : TRUE
             np == C1_Count(perf_agg.rows, k)
             ns == C1_Count(status_agg.rows, k)
         IN  (IF np > 0 /\ ns > 0 THEN np * ns ELSE np + ns) + C1_OuterCount(keys \ {k})

C1_Names(df) ==
    IF "Agent Name" \in df.cols
    THEN {df.rows[i]["Agent Name"] : i \in 1..Len(df.rows)} \ {NaNS}
    ELSE {}

\* C1: when the two aggregates share a key column, the merged table is the
\* full outer join on the shared key columns: its key values are exactly
\* those of either aggregate, its row count is the outer join's, a row
\* whose key one side lacks has that side's fields null, and every agent
\* name of the loaded performance or status rows is in the merged table.
C1_FullOuterJoin ==
    (pc = "booking" /\ C1_SharedKey # <<>>) =>
        LET pkeys == KeysOf(perf_agg.rows, C1_SharedKey)
            skeys == KeysOf(status_agg.rows, C1_SharedKey)
        IN  /\ KeysOf(merged.rows, C1_SharedKey) = pkeys \cup skeys
            /\ Len(merged.rows) = C1_OuterCount(pkeys \cup skeys)
            /\ \A i \in 1..Len(merged.rows) :
                  LET r == merged.rows[i]
                      k == KeyOf(r, C1_SharedKey)
                  IN  /\ k \notin skeys =>
                            \A c \in status_agg.cols \ perf_agg.cols : r[c] = NullOf(c)
                      /\ k \notin pkeys =>
                            \A c \in perf_agg.cols \ status_agg.cols : r[c] = NullOf(c)
            /\ C1_Names(perf_df) \cup C1_Names(status_df) \subseteq C1_Names(merged)

\* A. Smith is in the status export only and B. Jones in the performance
\* export only; both are in the merged table, the other side null
C1_Witness ==
    /\ pc = "booking" /\ C1_SharedKey # <<>>
    /\ {"Answered", "Logged In", "Agent Name"} \subseteq merged.cols
    /\ \E i, j \in 1..Len(merged.rows) :
          /\ merged.rows[i]["Agent Name"] = "A. Smith"
          /\ merged.rows[i]["Answered"] = NaN /\ merged.rows[i]["Logged In"] # NaN
          /\ merged.rows[j]["Agent Name"] = "B. Jones"
          /\ merged.rows[j]["Logged In"] = NaN /\ merged.rows[j]["Answered"] # NaN

\* the merged table before the unnamed records are dropped
C4_Reconciled ==
    LET m == merge_perf_status(perf_agg, status_agg)
    IN  IF booking.given /\ booking.exists
        THEN merge_booking(m, aggregate_booking(booking_df)) ELSE m

C4_Named(m) == SelectSeq(m.rows, LAMBDA r : ~IsNaS(r["Agent Name"]))

-----------------------------------------------------------------------------
(* The performance family: up to MaxPerfRows performance rows of any media *)
(* type, with and without a Media Type column, with missing key values    *)
(* and missing Answered counts.                                            *)

MaxPerfRows == 2

NoId == [id |-> NaNS, name |-> "A. Smith"]

PerfInit ==
    /\ Start
    /\ \E kc \in {{"Agent Name"}, {"Agent Id", "Agent Name"}},
          mc \in {{}, {"Media Type"}} :
       \E p \in SeqsUpTo({PerfRow(a, Slot1, m, n, 1, 30, 300, 60) :
                             a \in {Smith, Unnamed, NoId},
                             m \in {"voice", "chat", NaNS},
                             n \in {NaN, 2, 5}},
                         MaxPerfRows) :
          perf_csv = MkCsv(kc \cup mc \cup {"Answered", "Outbound"}, p)
    /\ status_csv = MkCsv(BaseStatusCols, <<PlainStatusRow(Smith)>>)
    /\ booking = NoBooking
    /\ template = BaseTemplate

SpecPerf == (Init \/ PerfInit) /\ [][Next]_vars

\* the rows load_perf is to keep, in the claim's words
C9_Kept ==
    IF "Media Type" \in perf_csv.cols
    THEN SelectSeq(perf_csv.rows, LAMBDA r : r["Media Type"] = "voice")
    ELSE perf_csv.rows

C9_Key(r) == KeyOf(r, PresentIn(KeyCandidates, perf_csv.cols))

RECURSIVE C9_Answered(_)
C9_Answered(rows) ==
    IF rows = <<>> THEN 0
    ELSE (IF Head(rows)["Answered"] = NaN THEN 0 ELSE Head(rows)["Answered"])
         + C9_Answered(Tail(rows))

\* C9: every row kept by load_perf is in exactly one group of
\* aggregate_perf, a row with a missing key component included; there is
\* one aggregated record per distinct key of the kept rows; each record's
\* Answered is the sum over its rows, and the Answered of all records sum
\* to the Answered of exactly the kept rows.
C9_AggregationConserves ==
    (pc = "aggregate_status" /\ "Answered" \in perf_csv.cols) =>
        /\ \A i \in 1..Len(C9_Kept) :
              Cardinality({j \in 1..Len(perf_agg.rows) :
                              C9_Key(perf_agg.rows[j]) = C9_Key(C9_Kept[i])}) = 1
        /\ Len(perf_agg.rows) = Cardinality({C9_Key(C9_Kept[i]) : i \in 1..Len(C9_Kept)})
        /\ \A j \in 1..Len(perf_agg.rows) :
              perf_agg.rows[j]["Answered"] =
                 C9_Answered(SelectSeq(C9_Kept,
                     LAMBDA r : C9_Key(r) = C9_Key(perf_agg.rows[j])))
        /\ C9_Answered(perf_agg.rows) = C9_Answered(C9_Kept)

\* a chat row was filtered out and a voice row without an agent name kept:
\* the unnamed row is a group of its own carrying its 5 answered calls
C9_Witness ==
    /\ pc = "aggregate_status"
    /\ "Media Type" \in perf_csv.cols
    /\ Len(perf_csv.rows) = 2 /\ Len(C9_Kept) = 1
    /\ C9_Kept[1]["Agent Name"] = NaNS /\ C9_Kept[1]["Answered"] = 5
    /\ Len(perf_agg.rows) = 1
    /\ perf_agg.rows[1]["Agent Name"] = NaNS /\ perf_agg.rows[1]["Answered"] = 5

-----------------------------------------------------------------------------
(* The metrics family: up to MaxMetricRows performance rows of one agent  *)
(* with every combination of missing, zero and positive Answered, Total   *)
(* Handle and Avg Handle, each of the three columns present or not, and a *)
(* second agent known to the status export only.                          *)

MaxMetricRows == 1

MetricsInit ==
    /\ Start
    /\ \E mc \in SUBSET {"Answered", "Total Handle", "Avg Handle"} :
       \E p \in SeqsUpTo({PerfRow(Smith, Slot1, "voice", n, 1, 30, th, avg) :
                             n \in {NaN, 0, 2}, th \in {NaN, 0, 7, 600}, avg \in {NaN, 55}},
                         MaxMetricRows) :
          perf_csv = MkCsv({"Agent Name", "Outbound"} \cup mc, p)
    /\ status_csv = MkCsv(BaseStatusCols, BaseStatusRows)
    /\ booking = NoBooking
    /\ template = BaseTemplate

SpecMetrics == (Init \/ MetricsInit) /\ [][Next]_vars

\* the reported 'Avg Handle' of a merged record, NoneRat when absent
C3_Reported(r) == IF "Avg Handle" \in merged.cols THEN r["Avg Handle"] ELSE NoneRat

\* the total handle seconds of a merged record, NaN when not available
C3_TotalHandle(r) == IF "Total Handle" \in merged.cols THEN r["Total Handle"] ELSE NaN

\* C3: for every reconciled record with a total handle that is not null
\* and a nonzero answered count the flat record's average handle seconds
\* is totalHandle / answered, also when totalHandle is 0; otherwise it is
\* the reported average, null when that is absent.
C3_AvgHandleRecomputed ==
    pc \in {"write", "to_csv", "done"} =>
        \A k \in 1..Len(records) :
            LET th == C3_TotalHandle(merged.rows[k])
                answered == records[k].TotalAnsweredCalls
            IN  IF th # NaN /\ answered # 0
                THEN RatEq(records[k].AvgHandleTimeSec, Rat(th, answered))
                ELSE RatEq(records[k].AvgHandleTimeSec, C3_Reported(merged.rows[k]))

\* what the code does: the same with a total handle of 0 counted as not
\* available
C3_RecomputedUnlessZeroTotal ==
    pc \in {"write", "to_csv", "done"} =>
        \A k \in 1..Len(records) :
            LET th == C3_TotalHandle(merged.rows[k])
                answered == records[k].TotalAnsweredCalls
            IN  IF th # NaN /\ th # 0 /\ answered # 0
                THEN RatEq(records[k].AvgHandleTimeSec, Rat(th, answered))
                ELSE RatEq(records[k].AvgHandleTimeSec, C3_Reported(merged.rows[k]))

-----------------------------------------------------------------------------
(* The booking family: well-formed booking files of up to MaxBookingRows  *)
(* rows (names of agents in and not in the exports, missing names, counts *)
(* that are numbers, missing or not numeric), or no booking file.         *)

MaxBookingRows == 2

BookingInit ==
    /\ Start
    /\ \E kc \in {{"Agent Name"}, {"Agent Id", "Agent Name"}, {"Agent Id"}} :
       \E p \in {<<PlainPerfRow(Smith, Slot1)>>,
                 <<PlainPerfRow(Smith, Slot1), PlainPerfRow(Unnamed, Slot1)>>,
                 <<PlainPerfRow(Jones, Slot1), PlainPerfRow(Smith, Slot1)>>},
          st \in {<<>>, <<PlainStatusRow(Smith)>>, <<PlainStatusRow(Jones)>>} :
          /\ perf_csv = MkCsv(kc \cup {"Answered", "Total Handle"}, p)
          /\ status_csv = MkCsv(kc \cup {"Logged In"}, st)
    /\ \/ booking = NoBooking
       \/ \E h \in WellFormedHeaders : booking = BookingFile(h, BaseBookingRows)
       \/ \E b \in SeqsUpTo({"A. Smith", "B. Jones", NaNS} \X {3, NaN, NotNumeric},
                            MaxBookingRows) :
             booking = BookingFile(<<"Clerk", "Agent Name", "Count", "Booked">>, b)
    /\ template = BaseTemplate

SpecBooking == (Init \/ BookingInit) /\ [][Next]_vars

\* the reconciled table of the run on the same exports without a booking file
C2_Plain == drop_unnamed(merge_perf_status(perf_agg, status_agg))

\* the names the booking file gives, as written in its name column
C2_BookedNames ==
    IF booking.given /\ booking.exists
    THEN {booking.rows[i][name_col(booking_df)] : i \in 1..Len(booking.rows)}
    ELSE {}

-----------------------------------------------------------------------------
(* The template family: templates of 2 to MaxTemplateRow rows, holding    *)
(* nothing, some or all columns of an earlier run, filled with 0 to       *)
(* MaxRecords records, with and without a status row.                     *)

MaxTemplateRow == 5
MaxRecords == 3

TemplateInit ==
    /\ Start
    /\ \E p \in SeqsUpTo({PlainPerfRow(a, t) : a \in {Smith, Jones}, t \in {Slot1, Slot2}},
                         MaxRecords) :
          perf_csv = MkCsv(Range(KeyCandidates) \cup {"Answered", "Total Handle"}, p)
    /\ status_csv \in {MkCsv(BaseStatusCols, <<>>),
                       MkCsv(BaseStatusCols, <<PlainStatusRow(Smith)>>)}
    /\ booking = NoBooking
    /\ \E last \in (FirstDataRow - 1)..MaxTemplateRow,
          stale \in {{}, {2, 6}, 1..LastWritableCol} :
          template = Template(last, stale)

SpecTemplate == (Init \/ TemplateInit) /\ [][Next]_vars

C7_Outside(p) == p[1] < 3 \/ p[2] > 14

C7_Preserved(sheet) ==
    /\ \A p \in DOMAIN template.cells :
          C7_Outside(p) => (p \in DOMAIN sheet /\ sheet[p] = template.cells[p])
    /\ \A p \in DOMAIN sheet : C7_Outside(p) => p \in DOMAIN template.cells

\* C7: every cell of rows 1 and 2 and every cell right of column N holds,
\* in the worksheet being filled and in the saved workbook, exactly what it
\* held in the template, and no cell is created there: only columns A to N
\* of rows 3 and below are cleared or written.
C7_OnlyWritableRegionChanges ==
    /\ pc \in {"clear", "write", "to_csv", "done"} => C7_Preserved(ws)
    /\ out_xlsx.exists => C7_Preserved(out_xlsx.content)

\* a workbook saved from a template with old values in rows 3 to 5: they
\* were cleared, two records were written, headers and notes are in place
C7_Witness ==
    /\ pc = "done" /\ max_row(template.cells) = 5
    /\ Cell(template.cells, 5, 2) = CText("old")
    /\ Len(records) = 2
    /\ Cell(out_xlsx.content, 5, 2) = CEmpty
    /\ Cell(out_xlsx.content, 4, 2) # CEmpty
    /\ Cell(out_xlsx.content, 1, 1) = CText("header")
    /\ Cell(out_xlsx.content, 4, 15) = CText("note")

\* C8: the k-th reconciled record is written to spreadsheet row 2 + k and
\* is the k-th flat record; rows 3..2+n and no others hold record data; the
\* flat file has as many rows as the spreadsheet has written ones, n once
\* the loop has ended.
C8_RowsInOrderNoGaps ==
    pc \in {"write", "to_csv", "done"} =>
        LET n == Len(records)
        IN  /\ n = df_pos - 1 /\ row_idx = 3 + n
            /\ pc \in {"to_csv", "done"} => n = Len(merged.rows)
            /\ \A k \in 1..n :
                  LET v == RowLocals(merged, k)
                      cells == RowCells(v, 2 + k)
                  IN  /\ records[k] = FlatRecord(v)
                      /\ \A p \in DOMAIN cells : Cell(ws, p[1], p[2]) = cells[p]
                      /\ Cell(ws, 2 + k, 1).k = "datetime"
            /\ \A p \in DOMAIN ws : (p[1] > 2 + n /\ p[2] <= 14) => ws[p] = CEmpty
            /\ out_xlsx.exists => out_xlsx.content = ws
            /\ out_csv.exists => (out_csv.content = records /\ out_xlsx.exists)

\* three records written in order: B. Jones, A. Smith, B. Jones again for
\* the other interval, in rows 3, 4 and 5 and as flat rows 1, 2 and 3
C8_Witness ==
    /\ pc = "done" /\ Len(out_csv.content) = 3
    /\ \E i \in 1..3 :
          /\ out_csv.content[i].AgentName = "A. Smith"
          /\ Cell(out_xlsx.content, 2 + i, 2) = CText("A. Smith")
          /\ \A j \in (1..3) \ {i} :
                /\ out_csv.content[j].AgentName = "B. Jones"
                /\ Cell(out_xlsx.content, 2 + j, 2) = CText("B. Jones")
    /\ Cell(out_xlsx.content, 6, 2) = CEmpty

\* the cells the run has assigned so far: those of lines 213-232 for each
\* record already written, at the row it was written to
C11_Written ==
    UNION {DOMAIN RowCells(RowLocals(merged, k), FirstDataRow + k - 1) : k \in 1..Len(records)}

\* no cell of columns A..N in rows 3..last row of the template holds
\* anything in the sheet unless the run assigned it
C11_NoStale(sheet) ==
    \A r \in FirstDataRow..max_row(template.cells), c \in 1..LastWritableCol :
        <<r, c>> \notin C11_Written => Cell(sheet, r, c) = CEmpty

\* C11: once the region is cleared, and in the saved workbook, every cell
\* of columns A to N in rows 3 to the template's last row that the run has
\* not written is empty, whatever an earlier run left there; and for every
\* written record whose logged-in duration is missing, column F of its row
\* is empty, not zero and not the template's old value.
C11_NoStaleDataSurvives ==
    /\ pc \in {"write", "to_csv", "done"} =>
          /\ C11_NoStale(ws)
          /\ \A k \in 1..Len(records) :
                IsNaN(RowLocals(merged, k).logged_in_seconds) =>
                    Cell(ws, FirstDataRow + k - 1, 6) = CEmpty
    /\ out_xlsx.exists =>
          /\ C11_NoStale(out_xlsx.content)
          /\ \A k \in 1..Len(records) :
                IsNaN(RowLocals(merged, k).logged_in_seconds) =>
                    Cell(out_xlsx.content, FirstDataRow + k - 1, 6) = CEmpty

\* a workbook saved over a template holding an earlier run in all of A..N
\* of rows 3 to 5: row 3 is A. Smith with a logged-in duration, row 4 is
\* B. Jones, who has no status row, with column F empty, and row 5, which
\* this run does not write, is empty in F and in N
C11_Witness ==
    /\ pc = "done" /\ Len(records) = 2
    /\ \A c \in 1..LastWritableCol :
          \A r \in FirstDataRow..5 : Cell(template.cells, r, c) = CText("old")
    /\ Cell(out_xlsx.content, 3, 6).k = "float"
    /\ IsNaN(RowLocals(merged, 2).logged_in_seconds)
    /\ Cell(out_xlsx.content, 4, 2) = CText("B. Jones")
    /\ Cell(out_xlsx.content, 4, 6) = CEmpty
    /\ Cell(out_xlsx.content, 5, 6) = CEmpty
    /\ Cell(out_xlsx.content, 5, 14) = CEmpty

-----------------------------------------------------------------------------
(* The column family: the two exports carry any subsets of the four       *)
(* candidate key columns, independently of each other.                    *)

ColsInit ==
    /\ Start
    /\ \E pk \in SUBSET Range(KeyCandidates), sk \in SUBSET Range(KeyCandidates) :
          /\ perf_csv = MkCsv(pk \cup {"Answered"}, BasePerfRows)
          /\ status_csv = MkCsv(sk \cup {"Logged In"}, BaseStatusRows)
    /\ booking = NoBooking
    /\ template = BaseTemplate

SpecCols == (Init \/ ColsInit) /\ [][Next]_vars

\* the columns the two aggregates have in common
C12_Shared == perf_agg.cols \cap status_agg.cols

\* the two aggregates exist: both aggregation steps have run
C12_Aggregated ==
    pc \in {"merge", "booking", "dropna", "open", "clear", "write", "to_csv", "done"}
        \/ (pc = "failed" /\ failed_at \notin {"load_perf", "load_status",
                                               "aggregate_perf", "aggregate_status"})

\* C12: for the column sets of any two aggregates the merge key is the
\* ordered sublist of the four candidates present in both; when that
\* sublist is empty so is the sublist of Agent Id, Agent Name present in
\* both; hence the key is empty exactly when the aggregates share none of
\* the four candidates, and only then can the merge fail for want of a key.
C12_FallbackNeverRescues ==
    /\ C12_Aggregated =>
          /\ join_cols(perf_agg, status_agg) = PresentIn(KeyCandidates, C12_Shared)
          /\ PresentIn(KeyCandidates, C12_Shared) = <<>>
                => PresentIn(FallbackCandidates, C12_Shared) = <<>>
          /\ join_cols(perf_agg, status_agg) = <<>>
                <=> C12_Shared \cap Range(KeyCandidates) = {}
    /\ (pc = "failed" /\ failed_at = "merge")
          => C12_Shared \cap Range(KeyCandidates) = {}

\* the merge was reached with a performance aggregate keyed by Agent Id and
\* Division Name and a status aggregate keyed by Agent Name and Interval
\* Start: no candidate is shared, both lists come out empty, and the merge
\* has failed for want of a key
C12_Witness ==
    /\ pc = "failed" /\ failed_at = "merge"
    /\ group_cols(perf_agg) = <<"Agent Id", "Division Name">>
    /\ group_cols(status_agg) = <<"Interval Start", "Agent Name">>
    /\ join_cols(perf_agg, status_agg) = <<>>

====
